---- MODULE Spec2Model ----
(***************************************************************************)
(* A model of asm_pyparsing.py, the pyparsing based DCPU-16 assembler:     *)
(* main() reads a source, codegen() parses it, walks the parsed lines      *)
(* (labels, DAT, JSR, two-operand instructions), substitutes the labels    *)
(* and packs the words, and main() writes or prints the bytes.             *)
(***************************************************************************)
EXTENDS Integers, Sequences, FiniteSets, TLC

VARIABLES source, destination, pc, parsed, lineno, labels, program, x,
          marks, iwords, result, exc, destfile, stdout, exit

vars == <<source, destination, pc, parsed, lineno, labels, program, x,
          marks, iwords, result, exc, destfile, stdout, exit>>

\* The longest source (in lines) of the specification Spec.
MaxLines == 2

-----------------------------------------------------------------------------
\* Python values that end up in the program list or in an extra word:
\* an int, a str (a label name) or None; Unbound is a local never assigned.

Num(n) == [isstr |-> FALSE, s |-> "", n |-> n]

Str(t) == [isstr |-> TRUE, s |-> t, n |-> 0]

None == [isstr |-> FALSE, s |-> "None", n |-> 0]

Unbound == [isstr |-> FALSE, s |-> "Unbound", n |-> 0]

IsInt(w) == ~w.isstr /\ w.s = ""

RECURSIVE BitOr(_, _)
\* Python's m | n on non-negative ints.
BitOr(m, n) ==
    IF m = 0 THEN n
    ELSE IF n = 0 THEN m
    ELSE (IF m % 2 = 1 \/ n % 2 = 1 THEN 1 ELSE 0) + 2 * BitOr(m \div 2, n \div 2)

RECURSIVE BitAnd(_, _)
\* Python's m & n on non-negative ints.
BitAnd(m, n) ==
    IF m = 0 \/ n = 0 THEN 0
    ELSE (IF m % 2 = 1 /\ n % 2 = 1 THEN 1 ELSE 0) + 2 * BitAnd(m \div 2, n \div 2)

\* Python's v << k and v >> k.
Shl(v, k) == v * (2 ^ k)

Shr(v, k) == v \div (2 ^ k)

-----------------------------------------------------------------------------
\* The tables.

IDENTIFIERS ==
    [A |-> 0, B |-> 1, C |-> 2, X |-> 3, Y |-> 4, Z |-> 5, I |-> 6, J |-> 7,
     POP |-> 24, PEEK |-> 25, PUSH |-> 26, SP |-> 27, PC |-> 28]

OPCODES ==
    [SET |-> 1, ADD |-> 2, SUB |-> 3, MUL |-> 4, DIV |-> 5, MOD |-> 6,
     SHL |-> 7, SHR |-> 8, AND |-> 9, BOR |-> 10, XOR |-> 11, IFE |-> 12,
     IFN |-> 13, IFG |-> 14, IFB |-> 15]

\* The register keywords of the grammar, each as its characters.
RegisterChars ==
    [A |-> <<"A">>, B |-> <<"B">>, C |-> <<"C">>, I |-> <<"I">>, J |-> <<"J">>,
     X |-> <<"X">>, Y |-> <<"Y">>, Z |-> <<"Z">>, O |-> <<"O">>,
     PC |-> <<"P", "C">>, SP |-> <<"S", "P">>]

\* The stack operation keywords of the grammar.
StackOps == {"PEEK", "POP", "PUSH"}

\* The mnemonics the grammar's instruction accepts.
Instructions == DOMAIN OPCODES \cup {"JSR"}

\* Python's sub in s on strings: sub occurs in s as a substring.
InStr(sub, s) ==
    \E i \in 0..(Len(s) - Len(sub)) : SubSeq(s, i + 1, i + Len(sub)) = sub

\* NamedRegister without the assertion.
NamedRegister_dropped(r) == TRUE

\* assert <register> in "ABCXYZIJ"
NamedRegister(r) ==
    InStr(RegisterChars[r], <<"A", "B", "C", "X", "Y", "Z", "I", "J">>)

-----------------------------------------------------------------------------
\* Parse results of an operand. A name the grammar did not set reads as "":
\* present = FALSE models that falsy value.

Basic(reg, sop, lit) ==
    [present |-> TRUE, register |-> reg, stack_op |-> sop, literal |-> lit]

NoBasic ==
    [present |-> FALSE, register |-> "", stack_op |-> "", literal |-> Str("")]

Expr(lit, reg) == [present |-> TRUE, literal |-> lit, register |-> reg]

NoExpr == [present |-> FALSE, literal |-> Str(""), register |-> ""]

NoIndirect == [present |-> FALSE, basic |-> NoBasic, expr |-> NoExpr]

\* R, PUSH, L
Direct(b) == [present |-> TRUE, basic |-> b, indirect |-> NoIndirect]

\* [R], [L], [PUSH]
IndirectBasic(b) ==
    [present |-> TRUE, basic |-> NoBasic,
     indirect |-> [present |-> TRUE, basic |-> b, expr |-> NoExpr]]

\* [L + R]
IndirectExpr(e) ==
    [present |-> TRUE, basic |-> NoBasic,
     indirect |-> [present |-> TRUE, basic |-> NoBasic, expr |-> e]]

\* The second operand of a statement written with one operand.
NoOperand == [present |-> FALSE, basic |-> NoBasic, indirect |-> NoIndirect]

Reg(r) == Basic(r, "", Str(""))

Stk(k) == Basic("", k, Str(""))

Lit(l) == Basic("", "", l)

-----------------------------------------------------------------------------
\* process_operand: the 6 bit field code and the optional extra word of one
\* operand, or the exception it raises.

Return(code, extra) == [exc |-> "", isnone |-> FALSE, code |-> code, extra |-> extra]

ReturnNone == [exc |-> "", isnone |-> TRUE, code |-> 0, extra |-> None]

Raise(e) == [exc |-> e, isnone |-> FALSE, code |-> 0, extra |-> None]

\* Inlinable with the boundary one too high.
Inlinable_offbyone(l) == IsInt(l) /\ l.n <= 32

\* not isinstance(l, basestring) and l < 0x20
Inlinable(l) == IsInt(l) /\ l.n < 32

\* 0x8 + IDENTIFIERS[ib.register]
IndirectRegisterCode(r) == 8 + IDENTIFIERS[r]

process_operand(o) ==
    IF ~o.present THEN Raise("AttributeError")
    ELSE IF o.basic.present THEN
        LET b == o.basic IN
        IF b.register # "" THEN
            IF b.register \in DOMAIN IDENTIFIERS
            THEN Return(IDENTIFIERS[b.register], None)
            ELSE Raise("KeyError")
        ELSE IF b.stack_op # "" THEN Return(IDENTIFIERS[b.stack_op], None)
        ELSE \* b.literal is not None holds of the "" of a missing name too
            LET l == b.literal IN
            IF Inlinable(l) THEN Return(BitOr(32, l.n), None)
            ELSE IF l = Str("") THEN Raise("AssertionError")
            ELSE Return(31, l)
    ELSE IF o.indirect.present THEN
        LET i == o.indirect IN
        IF i.basic.present THEN
            LET ib == i.basic IN
            IF ib.register # "" THEN
                IF ~NamedRegister(ib.register) THEN Raise("AssertionError")
                ELSE IF ib.register \notin DOMAIN IDENTIFIERS THEN Raise("KeyError")
                ELSE Return(IndirectRegisterCode(ib.register), None)
            ELSE Return(30, ib.literal)
        ELSE IF i.expr.present THEN
            LET ie == i.expr IN
            IF ~NamedRegister(ie.register) THEN Raise("AssertionError")
            ELSE IF ie.register \notin DOMAIN IDENTIFIERS THEN Raise("KeyError")
            ELSE Return(BitOr(16, IDENTIFIERS[ie.register]), ie.literal)
        ELSE ReturnNone
    ELSE ReturnNone

-----------------------------------------------------------------------------
\* The DAT directive: the parse actions of datalist and quoted_string.

\* ord(c) of the characters the sources use.
Ord == ("H" :> 72) @@ ("I" :> 73) @@ ("!" :> 33)

\* make_words with the two characters of a word in each other's place.
make_words_swapped(data) ==
    [j \in 1..((Len(data) + 1) \div 2) |->
        BitOr(Shl(IF 2 * j <= Len(data) THEN data[2 * j] ELSE 0, 8), data[2 * j - 1])]

\* [a << 8 | b for a, b in izip_longest(data[::2], data[1::2], fillvalue=0)]
make_words(data) ==
    [j \in 1..((Len(data) + 1) \div 2) |->
        BitOr(Shl(data[2 * j - 1], 8), IF 2 * j <= Len(data) THEN data[2 * j] ELSE 0)]

wordize_string(chars) == make_words([k \in 1..Len(chars) |-> Ord[chars[k]]])

\* One item of a DAT list, as written.
StringItem(chars) == [kind |-> "string", chars |-> chars, n |-> 0]

NumberItem(n) == [kind |-> "number", chars |-> <<>>, n |-> n]

IdentifierItem == [kind |-> "identifier", chars |-> <<>>, n |-> 0]

\* datum = quoted_string | numeric_literal: an identifier does not match.
datum_matches(token) == token.kind \in {"string", "number"}

datum(token) ==
    IF token.kind = "string" THEN wordize_string(token.chars) ELSE <<token.n>>

RECURSIVE parse_data(_)
parse_data(tokens) ==
    IF tokens = <<>> THEN <<>>
    ELSE datum(Head(tokens)) \o parse_data(Tail(tokens))

-----------------------------------------------------------------------------
\* full_grammar.parseString(source): a source is its lines as written; a line
\* is an optional label and an optional statement.

SourceLine(label, mnemonic, first, second, items) ==
    [label |-> label, mnemonic |-> mnemonic, first |-> first,
     second |-> second, items |-> items]

NoStatement ==
    [present |-> FALSE, instruction |-> "", first |-> NoOperand,
     second |-> NoOperand, data |-> <<>>]

\* statement: instruction + first + optional second, or data.
statement_matches(l) ==
    \/ l.mnemonic \in Instructions
    \/ l.mnemonic = "DAT" /\ \A k \in 1..Len(l.items) : datum_matches(l.items[k])

statement(l) ==
    IF l.mnemonic = "DAT"
    THEN LET ws == parse_data(l.items) IN
         [present |-> TRUE, instruction |-> "DAT", first |-> NoOperand,
          second |-> NoOperand, data |-> [k \in 1..Len(ws) |-> Num(ws[k])]]
    ELSE [present |-> TRUE, instruction |-> l.mnemonic, first |-> l.first,
          second |-> l.second, data |-> <<>>]

\* A line whose text is not a statement leaves text before the line end.
line_matches(l) == l.mnemonic = "" \/ statement_matches(l)

line(l) ==
    [label |-> l.label,
     statement |-> IF l.mnemonic = "" THEN NoStatement ELSE statement(l)]

full_grammar_matches(src) == \A k \in 1..Len(src) : line_matches(src[k])

full_grammar(src) == [k \in 1..Len(src) |-> line(src[k])]

-----------------------------------------------------------------------------
\* codegen: the loop over the parsed lines.

\* LabelAddress taken one word late.
LabelAddress_late(prog) == Len(prog) + 1

\* labels[line.label] = len(program)
LabelAddress(prog) == Len(prog)

\* labels[k] = v
Bind(f, k, v) == [n \in DOMAIN f \cup {k} |-> IF n = k THEN v ELSE f[n]]

\* InstructionWord with the two operand fields in each other's place.
InstructionWord_swapped(o, a, b) == Shl(a, 10) + Shl(b, 4) + o

\* InstructionWord with the b field one bit low.
InstructionWord_narrow(o, a, b) == Shl(b, 9) + Shl(a, 4) + o

\* ((b << 10) + (a << 4) + o)
InstructionWord(o, a, b) == Shl(b, 10) + Shl(a, 4) + o

Outcome(e, prog, xv, iw) == [exc |-> e, program |-> prog, x |-> xv, iw |-> iw]

\* program.append(word); if x is not None: append(x); if y is not None: append(y)
\* xv is the local x as the statement left it: JSR does not assign it.
append_words(prog, o, a, b, xv, yv) ==
    LET prog1 == Append(prog, Num(InstructionWord(o, a, b)))
        iw    == <<[idx |-> Len(prog) + 1, o |-> o, a |-> a, b |-> b]>>
    IN  IF xv = Unbound THEN Outcome("UnboundLocalError", prog1, xv, iw)
        ELSE Outcome("",
                     prog1 \o (IF xv # None THEN <<xv>> ELSE <<>>)
                           \o (IF yv # None THEN <<yv>> ELSE <<>>),
                     xv, iw)

\* The JSR branch: o = 0x00, a = 0x01, b, y = process_operand(s.first).
jsr_statement(s, prog, xv) ==
    LET pb == process_operand(s.first) IN
    IF pb.exc # "" THEN Outcome(pb.exc, prog, xv, <<>>)
    ELSE IF pb.isnone THEN Outcome("TypeError", prog, xv, <<>>)
    ELSE append_words(prog, 0, 1, pb.code, xv, pb.extra)

\* The other branch: o = OPCODES[..], a, x = first, b, y = second.
binary_statement(s, prog, xv) ==
    LET pa == process_operand(s.first)
        pb == process_operand(s.second)
    IN  IF pa.exc # "" THEN Outcome(pa.exc, prog, xv, <<>>)
        ELSE IF pb.exc # "" THEN Outcome(pb.exc, prog, pa.extra, <<>>)
        ELSE IF pa.isnone \/ pb.isnone THEN Outcome("TypeError", prog, pa.extra, <<>>)
        ELSE append_words(prog, OPCODES[s.instruction], pa.code, pb.code,
                          pa.extra, pb.extra)

\* One line's statement.
statement_step(s, prog, xv) ==
    IF ~s.present THEN Outcome("", prog, xv, <<>>)
    ELSE IF s.instruction = "DAT" THEN Outcome("", prog \o s.data, xv, <<>>)
    ELSE IF s.instruction = "JSR" THEN jsr_statement(s, prog, xv)
    ELSE binary_statement(s, prog, xv)

\* substitute with address 0 for an undefined label.
substitute_default(prog, labs) ==
    [exc |-> "",
     program |-> [i \in 1..Len(prog) |->
                    IF ~prog[i].isstr THEN prog[i]
                    ELSE IF prog[i].s \in DOMAIN labs THEN Num(labs[prog[i].s])
                    ELSE Num(0)]]

\* for i, c in enumerate(program): if isinstance(c, basestring):
\*     program[i] = labels[c]
\* in place, up to the first name labels does not hold.
substitute(prog, labs) ==
    LET undefined == {i \in 1..Len(prog) : prog[i].isstr /\ prog[i].s \notin DOMAIN labs}
        stop == IF undefined = {} THEN Len(prog) + 1
                ELSE CHOOSE i \in undefined : \A j \in undefined : i <= j
    IN  [exc |-> IF undefined = {} THEN "" ELSE "KeyError",
         program |-> [i \in 1..Len(prog) |->
                        IF i < stop /\ prog[i].isstr THEN Num(labs[prog[i].s])
                        ELSE prog[i]]]

\* pack with the low byte first.
pack_little(w) == <<w % 256, w \div 256>>

\* struct.pack(">H", word)
pack(w) == <<w \div 256, w % 256>>

\* What ">H" takes.
packable(w) == IsInt(w) /\ w.n >= 0 /\ w.n <= 65535

RECURSIVE pack_words(_)
\* result = bytes(); for word in program: result += struct.pack(">H", word)
pack_words(prog) ==
    IF prog = <<>> THEN [exc |-> "", result |-> <<>>]
    ELSE IF ~packable(Head(prog)) THEN [exc |-> "struct.error", result |-> <<>>]
    ELSE LET rest == pack_words(Tail(prog)) IN
         [exc |-> rest.exc,
          result |-> IF rest.exc = "" THEN pack(Head(prog).n) \o rest.result ELSE <<>>]

-----------------------------------------------------------------------------
\* A file or a stream that holds nothing yet, or the bytes it was given.

Nothing == [exists |-> FALSE, bytes |-> <<>>]

Holding(bs) == [exists |-> TRUE, bytes |-> bs]

-----------------------------------------------------------------------------
\* The sources of the specification Spec: a few operands of each outcome
\* (no extra word, a numeric extra word, a label, an assertion failure), on
\* up to MaxLines lines.

RunOperands ==
    {Direct(Reg("A")), Direct(Lit(Num(48))), Direct(Lit(Str("foo"))),
     Direct(Lit(Str("bar"))), IndirectBasic(Reg("PC"))}

RunData ==
    {<<StringItem(<<"H", "I">>)>>,
     <<NumberItem(7), StringItem(<<"H", "I", "!">>)>>,
     <<StringItem(<<>>), NumberItem(65535)>>,
     <<NumberItem(65536)>>,
     <<IdentifierItem>>}

RunStatements ==
    {SourceLine("", "SET", f, s, <<>>) : f \in RunOperands, s \in RunOperands}
    \cup {SourceLine("", "JSR", f, NoOperand, <<>>) : f \in RunOperands}
    \cup {SourceLine("", "DAT", NoOperand, NoOperand, d) : d \in RunData}
    \cup {SourceLine("", "SET", Direct(Reg("A")), NoOperand, <<>>),
          SourceLine("", "", NoOperand, NoOperand, <<>>),
          SourceLine("", "FOO", NoOperand, NoOperand, <<>>)}

\* The lines that carry a label definition.
RunLabelled ==
    {SourceLine(n, "", NoOperand, NoOperand, <<>>) : n \in {"foo", "bar"}}
    \cup {SourceLine(n, "JSR", Direct(Lit(Str("foo"))), NoOperand, <<>>) : n \in {"foo", "bar"}}
    \cup {SourceLine("foo", "SET", Direct(Reg("A")), Direct(Lit(Num(48))), <<>>),
          SourceLine("foo", "DAT", NoOperand, NoOperand,
                     <<NumberItem(7), StringItem(<<"H", "I", "!">>)>>)}

RunLines == RunStatements \cup RunLabelled

RunSources == UNION {[1..n -> RunLines] : n \in 1..MaxLines}

\* The sources of the specification SpecEnc: one instruction, over every
\* mnemonic and every form of operand the grammar accepts.

Registers == DOMAIN RegisterChars

Literals ==
    {Num(0), Num(1), Num(31), Num(32), Num(48), Num(65535), Num(65536), Str("foo")}

Operands ==
    {Direct(Reg(r)) : r \in Registers}
    \cup {Direct(Stk(k)) : k \in StackOps}
    \cup {Direct(Lit(l)) : l \in Literals}
    \cup {IndirectBasic(Reg(r)) : r \in Registers}
    \cup {IndirectBasic(Stk(k)) : k \in StackOps}
    \cup {IndirectBasic(Lit(l)) : l \in Literals}
    \cup {IndirectExpr(Expr(l, r)) : l \in {Num(0), Str("foo")}, r \in Registers}

EncSources ==
    {<<SourceLine("foo", m, f, s, <<>>)>> :
        m \in Instructions, f \in Operands, s \in Operands \cup {NoOperand}}
    \cup {<<l>> : l \in RunStatements}

-----------------------------------------------------------------------------
\* The run: main() calls codegen() and writes what it returns.

InitWith(sources) ==
    /\ source \in sources
    /\ destination \in BOOLEAN
    /\ pc = "parse"
    /\ parsed = <<>>
    /\ lineno = 1
    /\ labels = <<>>
    /\ program = <<>>
    /\ x = Unbound
    /\ marks = <<>>
    /\ iwords = <<>>
    /\ result = <<>>
    /\ exc = ""
    /\ destfile = Nothing
    /\ stdout = Nothing
    /\ exit = <<>>

Init == InitWith(RunSources)

InitEnc == InitWith(EncSources)

\* parsed = full_grammar.parseString(source), or return None
Parse ==
    /\ pc = "parse"
    /\ IF full_grammar_matches(source)
       THEN parsed' = full_grammar(source) /\ pc' = "loop"
       ELSE parsed' = parsed /\ pc' = "returned_none"
    /\ UNCHANGED <<source, destination, lineno, labels, program, x, marks,
                   iwords, result, exc, destfile, stdout, exit>>

\* One turn of for line in parsed.
GenLine ==
    /\ pc = "loop"
    /\ LET ln == parsed[lineno]
           r  == statement_step(ln.statement, program, x)
       IN  /\ labels' = IF ln.label # ""
                        THEN Bind(labels, ln.label, LabelAddress(program))
                        ELSE labels
           /\ marks' = Append(marks, Len(program))
           /\ program' = r.program
           /\ x' = r.x
           /\ iwords' = iwords \o r.iw
           /\ exc' = r.exc
           /\ lineno' = IF r.exc = "" THEN lineno + 1 ELSE lineno
           /\ pc' = IF r.exc # "" THEN "raised"
                    ELSE IF lineno < Len(parsed) THEN "loop"
                    ELSE "substitute"
    /\ UNCHANGED <<source, destination, parsed, result, destfile, stdout, exit>>

\* Substitute labels.
Substitute ==
    /\ pc = "substitute"
    /\ LET r == substitute(program, labels)
       IN  /\ program' = r.program
           /\ exc' = r.exc
           /\ pc' = IF r.exc = "" THEN "pack" ELSE "raised"
    /\ UNCHANGED <<source, destination, parsed, lineno, labels, x, marks,
                   iwords, result, destfile, stdout, exit>>

\* Turn words into bytes, and return them.
Pack ==
    /\ pc = "pack"
    /\ LET r == pack_words(program)
       IN  /\ result' = r.result
           /\ exc' = r.exc
           /\ pc' = IF r.exc = "" THEN "returned" ELSE "raised"
    /\ UNCHANGED <<source, destination, parsed, lineno, labels, program, x,
                   marks, iwords, destfile, stdout, exit>>

\* if program is None: return 1
NoProgram ==
    /\ pc = "returned_none"
    /\ exit' = <<1>>
    /\ pc' = "exit"
    /\ UNCHANGED <<source, destination, parsed, lineno, labels, program, x,
                   marks, iwords, result, exc, destfile, stdout>>

\* with open(args.destination, "wb") as fd: fd.write(program); return 0
WriteProgram ==
    /\ pc = "returned"
    /\ destination
    /\ destfile' = Holding(result)
    /\ exit' = <<0>>
    /\ pc' = "exit"
    /\ UNCHANGED <<source, destination, parsed, lineno, labels, program, x,
                   marks, iwords, result, exc, stdout>>

\* if not args.destination: print(program); return 0
PrintProgram ==
    /\ pc = "returned"
    /\ ~destination
    /\ stdout' = Holding(result)
    /\ exit' = <<0>>
    /\ pc' = "exit"
    /\ UNCHANGED <<source, destination, parsed, lineno, labels, program, x,
                   marks, iwords, result, exc, destfile>>

\* An exception codegen raised leaves main uncaught: the interpreter ends
\* with status 1.
Uncaught ==
    /\ pc = "raised"
    /\ exit' = <<1>>
    /\ pc' = "exit"
    /\ UNCHANGED <<source, destination, parsed, lineno, labels, program, x,
                   marks, iwords, result, exc, destfile, stdout>>

Next ==
    \/ Parse
    \/ GenLine
    \/ Substitute
    \/ Pack
    \/ NoProgram
    \/ WriteProgram
    \/ PrintProgram
    \/ Uncaught

Spec == Init /\ [][Next]_vars

SpecEnc == InitEnc /\ [][Next]_vars

-----------------------------------------------------------------------------
\* What the properties below read off a state.

\* The labels have not been substituted yet: the loop is running, has raised,
\* or has just ended.
PreSubstitution == lineno <= Len(parsed) \/ pc = "substitute"

\* The words the program holds for line i, from where the line began to where
\* the next began.
Segment(i) ==
    SubSeq(program, marks[i] + 1,
           IF i < Len(marks) THEN marks[i + 1] ELSE Len(program))

\* An extra word, if there is one.
Opt(w) == IF w = None THEN <<>> ELSE <<w>>

IsBinary(s) == s.present /\ s.instruction \in DOMAIN OPCODES

IsJsr(s) == s.present /\ s.instruction = "JSR"

Classified(p) == p.exc = "" /\ ~p.isnone

\* The field code and extra word the operand table gives a direct literal.
LiteralEncoding(l) ==
    IF IsInt(l) /\ l.n >= 0 /\ l.n < 32 THEN [code |-> 32 + l.n, extra |-> None]
    ELSE [code |-> 31, extra |-> l]

IsDirectLiteral(o) ==
    /\ o.present /\ o.basic.present
    /\ o.basic.register = "" /\ o.basic.stack_op = ""
    /\ o.basic.literal # Str("")

\* The index of the 8 named registers.
NamedIndex ==
    [A |-> 0, B |-> 1, C |-> 2, X |-> 3, Y |-> 4, Z |-> 5, I |-> 6, J |-> 7]

\* The register of an indirect operand, "" when it has none.
IndirectRegister(o) ==
    IF ~o.present \/ ~o.indirect.present THEN ""
    ELSE IF o.indirect.basic.present THEN o.indirect.basic.register
    ELSE o.indirect.expr.register

\* The field code and extra word the operand table gives [R] and [L + R].
IndirectEncoding(o) ==
    IF o.indirect.basic.present
    THEN [code |-> 8 + NamedIndex[o.indirect.basic.register], extra |-> None]
    ELSE [code |-> 16 + NamedIndex[o.indirect.expr.register],
          extra |-> o.indirect.expr.literal]

\* The operands codegen classifies for a statement, in order.
ClassifiedOperands(s) ==
    IF IsJsr(s) THEN <<s.first>>
    ELSE IF IsBinary(s) THEN <<s.first, s.second>>
    ELSE <<>>

\* The instruction word record of line i, if the line appended one.
WordsOfLine(i) ==
    {k \in 1..Len(iwords) : iwords[k].idx = marks[i] + 1
                            /\ ~(parsed[i].statement.instruction = "DAT")}

-----------------------------------------------------------------------------
\* C1: every two-operand line whose operands classify to (a, x) and (b, y)
\* appends exactly the word (b << 10) | (a << 4) | o, then x if present, then
\* y if present; SET A, 0x30 appends exactly 0x7C01, 0x0030.
C1_TwoOperandWords ==
    PreSubstitution =>
        \A i \in 1..Len(marks) :
            LET s  == parsed[i].statement
                pa == process_operand(s.first)
                pb == process_operand(s.second)
            IN  /\ (IsBinary(s) /\ Classified(pa) /\ Classified(pb)) =>
                      Segment(i) =
                          <<Num(BitOr(BitOr(Shl(pb.code, 10), Shl(pa.code, 4)),
                                      OPCODES[s.instruction]))>>
                          \o Opt(pa.extra) \o Opt(pb.extra)
                /\ (s.present /\ s.instruction = "SET"
                    /\ s.first = Direct(Reg("A")) /\ s.second = Direct(Lit(Num(48)))) =>
                      Segment(i) = <<Num(31745), Num(48)>>

\* A two-operand line with both extra words has been generated.
C1_Witness ==
    /\ pc = "substitute"
    /\ \E i \in 1..Len(marks) :
          LET s == parsed[i].statement IN
          /\ IsBinary(s)
          /\ process_operand(s.first).extra = Num(48)
          /\ process_operand(s.second).extra = Str("foo")
          /\ Len(Segment(i)) = 3

\* C2: every JSR line, whatever precedes it, appends exactly the word
\* (b << 10) | 0x10 and then the operand's extra word if it has one, and
\* nothing else.
C2_JsrWords ==
    PreSubstitution =>
        \A i \in 1..Len(marks) :
            LET s  == parsed[i].statement
                pb == process_operand(s.first)
            IN  (IsJsr(s) /\ Classified(pb)) =>
                    Segment(i) = <<Num(BitOr(Shl(pb.code, 10), 16))>> \o Opt(pb.extra)

\* C3: with every label defined once, the substitution turns each symbolic
\* word into the length the program had when the line defining its label was
\* reached, forward and backward references alike, leaves the numbers alone
\* and leaves no symbolic word.
C3_LabelsResolve ==
    [][(/\ pc = "substitute"
        /\ \A i, k \in 1..Len(parsed) :
              (parsed[i].label # "" /\ parsed[i].label = parsed[k].label) => i = k
        /\ \A j \in 1..Len(program) :
              program[j].isstr => \E k \in 1..Len(parsed) : parsed[k].label = program[j].s)
       => (/\ pc' = "pack"
           /\ Len(program') = Len(program)
           /\ \A j \in 1..Len(program) :
                 /\ IsInt(program'[j])
                 /\ ~program[j].isstr => program'[j] = program[j]
                 /\ program[j].isstr =>
                       \A k \in 1..Len(parsed) :
                           parsed[k].label = program[j].s =>
                               program'[j] = Num(marks[k]))]_vars

\* The references of line i, as label names.
ReferencesOf(i) ==
    LET ops == ClassifiedOperands(parsed[i].statement) IN
    {process_operand(ops[k]).extra.s :
        k \in {m \in 1..Len(ops) : process_operand(ops[m]).extra.isstr}}

\* A forward and a backward reference to one label have been substituted, and
\* the label is not at address 0.
C3_Witness ==
    /\ pc = "pack"
    /\ \E i, k, m \in 1..Len(parsed) :
          /\ i < k /\ k <= m
          /\ parsed[k].label # ""
          /\ \A q \in 1..Len(parsed) : parsed[q].label = parsed[k].label => q = k
          /\ parsed[k].label \in ReferencesOf(i)
          /\ parsed[k].label \in ReferencesOf(m)
          /\ marks[k] > 0
          /\ program[marks[i] + 2] = Num(marks[k])

\* A source the assembler is meant to accept: it matches the grammar, every
\* instruction has the operands its mnemonic takes, no operand or datum breaks
\* an encoding constraint or the 16 bits of a word, and every label an operand
\* names is defined.
ValidLiteral(l) == l # Str("") /\ (IsInt(l) => l.n >= 0 /\ l.n <= 65535)

ValidOperand(o) ==
    /\ o.present
    /\ \/ /\ o.basic.present
          /\ \/ o.basic.register \in DOMAIN IDENTIFIERS \ StackOps
             \/ o.basic.stack_op \in StackOps
             \/ o.basic.register = "" /\ o.basic.stack_op = ""
                /\ ValidLiteral(o.basic.literal)
       \/ /\ ~o.basic.present /\ o.indirect.present /\ o.indirect.basic.present
          /\ \/ o.indirect.basic.register \in DOMAIN NamedIndex
             \/ o.indirect.basic.register = "" /\ o.indirect.basic.stack_op = ""
                /\ ValidLiteral(o.indirect.basic.literal)
       \/ /\ ~o.basic.present /\ o.indirect.present /\ o.indirect.expr.present
          /\ o.indirect.expr.register \in DOMAIN NamedIndex
          /\ ValidLiteral(o.indirect.expr.literal)

NamesOf(o) ==
    IF ~o.present THEN {}
    ELSE {l.s : l \in {m \in {o.basic.literal, o.indirect.basic.literal,
                               o.indirect.expr.literal} : m.isstr /\ m.s # ""}}

ValidSource(src) ==
    /\ full_grammar_matches(src)
    /\ \A i \in 1..Len(src) :
          LET l == src[i] IN
          /\ l.mnemonic \in DOMAIN OPCODES =>
                 ValidOperand(l.first) /\ ValidOperand(l.second)
          /\ l.mnemonic = "JSR" => ValidOperand(l.first) /\ ~l.second.present
          /\ l.mnemonic = "DAT" =>
                 \A k \in 1..Len(l.items) : l.items[k].n >= 0 /\ l.items[k].n <= 65535
          /\ \A n \in NamesOf(l.first) \cup NamesOf(l.second) :
                 \E k \in 1..Len(src) : src[k].label = n

\* C4: a run ends either with every stage done, the whole byte stream written
\* and status 0, or with a stage failed, nothing written and status 1; never
\* with part of the stream; and a valid source always ends with status 0.
C4_Outcome ==
    pc = "exit" =>
        /\ \/ /\ exit = <<0>>
              /\ exc = ""
              /\ Len(result) = 2 * Len(program)
              /\ IF destination
                 THEN destfile = Holding(result) /\ stdout = Nothing
                 ELSE stdout = Holding(result) /\ destfile = Nothing
           \/ /\ exit = <<1>>
              /\ ~full_grammar_matches(source) \/ exc # ""
              /\ destfile = Nothing /\ stdout = Nothing
        /\ ValidSource(source) => exit = <<0>>

\* C5: a direct literal L gives (0x20 | L, no extra word) when numeric and
\* below 0x20, and (0x1F, L) when numeric from 0x20 up or a label name: 0 gives
\* 0x20, 0x1F gives 0x3F, 0x20 gives 0x1F followed by 0x20.
C5_LiteralInlining ==
    \A i \in 1..Len(marks) :
        LET s  == parsed[i].statement
            pa == process_operand(s.first)
            pb == process_operand(s.second)
            ea == IF IsDirectLiteral(s.first)
                  THEN LiteralEncoding(s.first.basic.literal)
                  ELSE [code |-> pa.code, extra |-> pa.extra]
            eb == IF IsDirectLiteral(s.second)
                  THEN LiteralEncoding(s.second.basic.literal)
                  ELSE [code |-> pb.code, extra |-> pb.extra]
        IN  /\ (PreSubstitution /\ IsBinary(s) /\ Classified(pa) /\ Classified(pb)) =>
                  \E k \in WordsOfLine(i) :
                      /\ iwords[k].a = ea.code
                      /\ iwords[k].b = eb.code
                      /\ Segment(i) = <<program[marks[i] + 1]>>
                                      \o Opt(ea.extra) \o Opt(eb.extra)
                      /\ s.first = Direct(Lit(Num(0))) =>
                            iwords[k].a = 32 /\ Len(Segment(i)) = 1 + Len(Opt(eb.extra))
                      /\ s.first = Direct(Lit(Num(31))) =>
                            iwords[k].a = 63 /\ Len(Segment(i)) = 1 + Len(Opt(eb.extra))
                      /\ s.first = Direct(Lit(Num(32))) =>
                            iwords[k].a = 31 /\ Segment(i)[2] = Num(32)
            /\ (IsJsr(s) /\ Classified(pa) /\ IsDirectLiteral(s.first)) =>
                  \E k \in WordsOfLine(i) : iwords[k].b = ea.code

\* An instruction with the literals 0x20 and 0x1F has been encoded.
C5_Witness ==
    /\ pc = "substitute"
    /\ parsed[1].statement.first = Direct(Lit(Num(32)))
    /\ parsed[1].statement.second = Direct(Lit(Num(31)))
    /\ Len(iwords) = 1 /\ iwords[1].a = 31 /\ iwords[1].b = 63
    /\ program[2] = Num(32)
    /\ Len(program) = 2

Referenced == UNION {ReferencesOf(i) : i \in 1..Len(parsed)}

Defined == {parsed[k].label : k \in 1..Len(parsed)} \ {""}

\* C7: when the generated words hold a reference to a label no line defines,
\* codegen fails in the substitution, before any byte is packed, and returns
\* no bytes: no address is made up and the placeholder never gets out.
C7_UndefinedLabel ==
    (parsed # <<>> /\ lineno > Len(parsed) /\ ~(Referenced \subseteq Defined)) =>
        /\ pc \in {"substitute", "raised", "exit"}
        /\ result = <<>> /\ destfile = Nothing /\ stdout = Nothing
        /\ exit # <<0>>
        /\ pc # "substitute" =>
              /\ exc = "KeyError"
              /\ \E j \in 1..Len(program) :
                    program[j].isstr /\ program[j].s \notin Defined

\* The substitution has failed on an undefined label that follows a defined one.
C7_Witness ==
    /\ pc = "raised"
    /\ exc = "KeyError"
    /\ lineno > Len(parsed)
    /\ "foo" \in Defined /\ "foo" \in Referenced
    /\ \E j, k \in 1..Len(program) :
          j < k /\ program[j] = Num(labels["foo"]) /\ program[k] = Str("bar")

\* C8: the bytes returned for a program of n words, each in 0..0xFFFF, are
\* exactly 2n: w[i] >> 8 then w[i] & 0xFF for each word in order, nothing
\* before or after; a word outside 0..0xFFFF is never packed.
C8_BigEndianBytes ==
    /\ pc \in {"returned", "exit"} /\ exit # <<1>> =>
          /\ Len(result) = 2 * Len(program)
          /\ \A i \in 1..Len(program) :
                /\ IsInt(program[i])
                /\ program[i].n >= 0 /\ program[i].n <= 65535
                /\ result[2 * i - 1] = Shr(program[i].n, 8)
                /\ result[2 * i] = BitAnd(program[i].n, 255)
          /\ exit = <<0>> =>
                (IF destination THEN destfile ELSE stdout) = Holding(result)
    /\ (\E i \in 1..Len(program) : IsInt(program[i]) /\ program[i].n > 65535) =>
          result = <<>> /\ destfile = Nothing /\ stdout = Nothing

\* A program of several words with differing bytes has been packed.
C8_Witness ==
    /\ pc = "returned"
    /\ Len(program) >= 3
    /\ program[1] = Num(31745)
    /\ result[1] = 124 /\ result[2] = 1

\* The words a DAT list stands for: one per number, and for a string of k
\* characters ceil(k / 2) words of two character codes, the last low byte 0
\* when k is odd.
RECURSIVE StringWords(_)
StringWords(chars) ==
    IF chars = <<>> THEN <<>>
    ELSE IF Len(chars) = 1 THEN <<Num(Ord[chars[1]] * 256)>>
    ELSE <<Num(Ord[chars[1]] * 256 + Ord[chars[2]])>> \o StringWords(SubSeq(chars, 3, Len(chars)))

RECURSIVE DataWords(_)
DataWords(items) ==
    IF items = <<>> THEN <<>>
    ELSE (IF Head(items).kind = "string" THEN StringWords(Head(items).chars)
          ELSE <<Num(Head(items).n)>>) \o DataWords(Tail(items))

\* C9: a DAT line appends, in list order, one word per number and ceil(k/2)
\* words per string of k characters, (code(2j) << 8) | code(2j+1) with a zero
\* low byte at an odd end ("HI" is 0x4849); every one is a number, and the
\* label substitution leaves them as they are.
C9_DatWords ==
    \A i \in 1..Len(marks) :
        source[i].mnemonic = "DAT" =>
            /\ Segment(i) = DataWords(source[i].items)
            /\ \A j \in 1..Len(Segment(i)) : IsInt(Segment(i)[j])
            /\ source[i].items = <<StringItem(<<"H", "I">>)>> =>
                  Segment(i) = <<Num(18505)>>

\* A DAT with a number and a string of 3 characters is in the program after
\* the substitution.
C9_Witness ==
    /\ pc = "pack"
    /\ \E i \in 1..Len(marks) :
          /\ source[i].items = <<NumberItem(7), StringItem(<<"H", "I", "!">>)>>
          /\ Segment(i) = <<Num(7), Num(18505), Num(8448)>>
    /\ Referenced # {}

\* C10: every instruction word W appended was built from an opcode in 0..15
\* and field codes a and b in 0..0x3F, so that (W >> 10) & 0x3F = b,
\* (W >> 4) & 0x3F = a, W & 0xF = o, and W fits 16 bits.
C10_InstructionFields ==
    \A k \in 1..Len(iwords) :
        LET w == program[iwords[k].idx] IN
        /\ iwords[k].o \in 0..15
        /\ iwords[k].a \in 0..63
        /\ iwords[k].b \in 0..63
        /\ IsInt(w)
        /\ w.n >= 0 /\ w.n <= 65535
        /\ BitAnd(Shr(w.n, 10), 63) = iwords[k].b
        /\ BitAnd(Shr(w.n, 4), 63) = iwords[k].a
        /\ BitAnd(w.n, 15) = iwords[k].o

\* An instruction word with the highest opcode and field codes has been
\* appended.
C10_Witness ==
    /\ Len(iwords) = 1
    /\ iwords[1].o = 15 /\ iwords[1].a = 63 /\ iwords[1].b = 63
    /\ program[1] = Num(65535)

====
